---- MODULE Spec2Model ----
(***************************************************************************)
(* Model of apps/leaxer_desktop/src-tauri/build.rs: the Cargo build script *)
(* of the desktop application.  main() calls tauri_build::build() and, on  *)
(* Windows hosts only, looks for WebView2Loader.dll under an ancestor of   *)
(* OUT_DIR named webview2-com-sys* and copies it to                        *)
(* <CARGO_MANIFEST_DIR>/target/<PROFILE>/WebView2Loader.dll.               *)
(*                                                                         *)
(* One run of main() is a sequence of steps tracked by pc; the script may  *)
(* be run MaxRuns times in succession on the same environment and file     *)
(* system.  tauri_build::build() is an external call that is taken to      *)
(* return and to leave the modelled files alone.                           *)
(***************************************************************************)
EXTENDS Naturals, Sequences, FiniteSets

\* Number of successive executions of the build script that are explored.
MaxRuns == 2

-----------------------------------------------------------------------------
(* Option / Result values *)

NoneV == [some |-> FALSE]
Some(x) == [some |-> TRUE, v |-> x]

-----------------------------------------------------------------------------
(* Strings and paths.  A path is the sequence of its components. *)

\* str::starts_with (line 21)
StartsWith(n, p) == Len(n) >= Len(p) /\ SubSeq(n, 1, Len(p)) = p

\* The dependency-name prefix tested on line 21.
Prefix == "webview2-com-sys"

\* The relative path appended on line 22 and the file name of line 26.
DllName == "WebView2Loader.dll"
DllRelPath == <<"out", "x64", DllName>>

\* Path separators of the host the script body is compiled for (Windows).
IsSep(c) == c \in {"/", "\\"}

RECURSIVE Split(_, _, _)
Split(s, i, cur) ==
    IF i > Len(s)
    THEN (IF cur = "" THEN <<>> ELSE <<cur>>)
    ELSE LET c == SubSeq(s, i, i)
         IN  IF IsSep(c)
             THEN (IF cur = "" THEN <<>> ELSE <<cur>>) \o Split(s, i + 1, "")
             ELSE Split(s, i + 1, cur \o c)

\* Path::new(&s): the components of s; repeated separators, a trailing
\* separator and "." components do not make components.
PathNew(s) == SelectSeq(Split(s, 1, ""), LAMBDA c : c # ".")

\* Path::join: an absolute argument replaces the path.
Join(p, s) == IF Len(s) > 0 /\ IsSep(SubSeq(s, 1, 1)) THEN PathNew(s) ELSE p \o PathNew(s)

\* Path::ancestors: the path itself, then each parent, down to the root.
Ancestors(p) == [i \in 1..(Len(p) + 1) |-> SubSeq(p, 1, Len(p) + 1 - i)]

\* Path::file_name: None for the root and for a path ending in "..".
FileName(p) == IF p = <<>> \/ p[Len(p)] = ".." THEN NoneV ELSE Some(p[Len(p)])

\* The closure of line 21.  Every component comes from a String, so to_str()
\* is always Some and unwrap_or("") never applies.
NameMatches(p) == LET n == FileName(p) IN IF n.some THEN StartsWith(n.v, Prefix) ELSE FALSE

\* Iterator::find: the first element satisfying the predicate.
FindFirst(seq) ==
    LET hits == {i \in 1..Len(seq) : NameMatches(seq[i])}
    IN  IF hits = {} THEN NoneV
        ELSE Some(seq[CHOOSE i \in hits : \A j \in hits : i <= j])

\* Faulty variant: the last match (rfind) instead of the first.
FindLast(seq) ==
    LET hits == {i \in 1..Len(seq) : NameMatches(seq[i])}
    IN  IF hits = {} THEN NoneV
        ELSE Some(seq[CHOOSE i \in hits : \A j \in hits : i >= j])

\* Faulty variant of SrcDll: the farthest matching ancestor.
SrcDllFarthest(out) ==
    LET hit == FindLast(Ancestors(PathNew(out)))
    IN  IF hit.some THEN Some(hit.v \o DllRelPath) ELSE NoneV

\* Lines 19-22: the candidate source path computed from OUT_DIR.
SrcDll(out) ==
    LET hit == FindFirst(Ancestors(PathNew(out)))
    IN  IF hit.some THEN Some(hit.v \o DllRelPath) ELSE NoneV

\* Faulty variant of TargetDir: the profile is left out.
TargetDirNoProfile(manifest, prof) == Join(PathNew(manifest), "target")

\* Line 16: the final output directory.
TargetDir(manifest, prof) == Join(Join(PathNew(manifest), "target"), prof)

-----------------------------------------------------------------------------
(* The file system: a function from resolved paths to what is stored there *)

Absent == "<absent>"
Dir == "<directory>"
Partial == "<partial>"
Contents == {"bytes-v1", "bytes-v2"}

RECURSIVE ResolveAcc(_, _, _)
ResolveAcc(p, i, acc) ==
    IF i > Len(p) THEN acc
    ELSE IF p[i] = ".."
         THEN ResolveAcc(p, i + 1, IF acc = <<>> THEN <<>> ELSE SubSeq(acc, 1, Len(acc) - 1))
         ELSE ResolveAcc(p, i + 1, Append(acc, p[i]))

\* The file a path names once the operating system has resolved its ".."
Resolve(p) == ResolveAcc(p, 1, <<>>)

Lookup(f, p) == LET r == Resolve(p) IN IF r \in DOMAIN f THEN f[r] ELSE Absent

Write(f, p, val) ==
    LET r == Resolve(p) IN [q \in (DOMAIN f) \cup {r} |-> IF q = r THEN val ELSE f[q]]

\* Faulty variant of Exists: the check is dropped.
ExistsAlways(f, p) == TRUE

\* Path::exists (line 25): true of files and of directories.
Exists(f, p) == Lookup(f, p) # Absent

\* Faulty variant of CopyOk: a rename instead of a copy.
CopyMoves(f, src, dst) == Write(Write(f, dst, Lookup(f, src)), src, Absent)

\* Faulty variant of CopyOk: the destination is left partial.
CopyTruncates(f, src, dst) == Write(f, dst, Partial)

\* std::fs::copy returning Ok (line 27): the destination holds the source's bytes.
CopyOk(f, src, dst) == Write(f, dst, Lookup(f, src))

\* std::fs::copy returning Err: the destination is untouched, removed or left partial.
CopyErr(f, src, dst) ==
    {f} \cup (IF Lookup(f, src) \in Contents /\ Lookup(f, dst) # Dir
              THEN {Write(f, dst, Absent), Write(f, dst, Partial)}
              ELSE {})

\* Whether the operating system can complete the copy at all.
CanCopy(f, src, dst) == Lookup(f, src) \in Contents /\ Lookup(f, dst) # Dir

-----------------------------------------------------------------------------
(* The inputs the build orchestrator and the host supply *)

EnvNames == {"OUT_DIR", "PROFILE", "CARGO_MANIFEST_DIR"}

EnvAbsent == [kind |-> "absent", s |-> ""]
EnvNotUnicode == [kind |-> "not_unicode", s |-> ""]
EnvStr(str) == [kind |-> "unicode", s |-> str]

OutDirs ==
    { "/proj/target/debug/build/webview2-com-sys-abc123/out",
      "/proj/target/debug/build/leaxer-desktop-0f3a91/out",
      "/proj/target/debug/build/webview2-com-sys-abc123/out/webview2-com-sys",
      "/proj/target/debug/build/x/../webview2-com-sys-abc123/out/x64/..",
      "/proj/webview2-com/my-webview2-com-sys/out" }
Profiles == {"debug", "release"}
ManifestDirs == {"/proj", "/proj/apps/leaxer_desktop/src-tauri"}

BuildDir == <<"proj", "target", "debug", "build">>
BuiltCrate == BuildDir \o <<"webview2-com-sys-abc123">>
SiblingCrate == BuildDir \o <<"webview2-com-sys-def456">>
NestedCrate == BuiltCrate \o <<"out", "webview2-com-sys">>

SourceFiles == {BuiltCrate \o DllRelPath, SiblingCrate \o DllRelPath, NestedCrate \o DllRelPath}
DestFiles == {PathNew(m) \o <<"target", p, DllName>> : m \in ManifestDirs, p \in Profiles}
FilePaths == SourceFiles \cup DestFiles

\* The orders in which the host may enumerate the entries of the build directory.
Orders ==
    { <<"webview2-com-sys-abc123", "webview2-com-sys-def456">>,
      <<"webview2-com-sys-def456", "webview2-com-sys-abc123">> }

-----------------------------------------------------------------------------
VARIABLES
    platform,      \* the host the script is compiled for: cfg(windows) or not
    env,           \* the process environment
    fs,            \* the file system
    iterOrder,     \* the order the host would list the build directory in
    pc,            \* position in main()
    run,           \* which execution of the script this is
    out_dir, profile, manifest_dir, target_dir, src_dll, dest,   \* main's locals
    copy_result,   \* the Result of std::fs::copy
    log,           \* the lines printed to the build log in this run
    trace,         \* the external calls made in this run, in order
    fs0,           \* the file system when this run started
    prev           \* what the previous run ended with

vars == <<platform, env, fs, iterOrder, pc, run, out_dir, profile, manifest_dir,
          target_dir, src_dll, dest, copy_result, log, trace, fs0, prev>>

locals == <<out_dir, profile, manifest_dir, target_dir, src_dll, dest, copy_result>>
world == <<platform, env>>

Init ==
    /\ platform \in {"windows", "other"}
    /\ \E o \in {EnvStr(x) : x \in OutDirs} \cup {EnvAbsent, EnvNotUnicode},
          p \in {EnvStr(x) : x \in Profiles} \cup {EnvAbsent, EnvNotUnicode},
          m \in {EnvStr(x) : x \in ManifestDirs} \cup {EnvAbsent, EnvNotUnicode} :
            env = [n \in EnvNames |-> IF n = "OUT_DIR" THEN o ELSE IF n = "PROFILE" THEN p ELSE m]
    /\ \E p1 \in SourceFiles, p2 \in FilePaths, v1 \in Contents \cup {Absent, Dir}, v2 \in Contents \cup {Absent} :
            fs = [q \in FilePaths |-> IF q = p1 THEN v1 ELSE IF q = p2 THEN v2 ELSE Absent]
    /\ iterOrder = <<>>
    /\ pc = "start"
    /\ run = 1
    /\ out_dir = NoneV /\ profile = NoneV /\ manifest_dir = NoneV /\ target_dir = NoneV
    /\ src_dll = NoneV /\ dest = NoneV /\ copy_result = NoneV
    /\ log = <<>>
    /\ trace = <<>>
    /\ fs0 = fs
    /\ prev = NoneV

-----------------------------------------------------------------------------
(* main() *)

\* Faulty variant of CfgWindows: the cfg attribute is missing.
CfgAny == TRUE

\* #[cfg(windows)] (line 6)
CfgWindows == platform = "windows"

\* Faulty variant of EnvVar: unwrap_or_default instead of unwrap.
EnvVarOrEmpty(name) == IF env[name].kind = "unicode" THEN Some(env[name].s) ELSE Some("")

\* std::env::var: Err when the variable is absent or is not valid Unicode.
EnvVar(name) == IF env[name].kind = "unicode" THEN Some(env[name].s) ELSE NoneV

\* Faulty variant of LogLines: a failed copy prints nothing.
LogLinesErrSilent(result, d) ==
    IF result = "Err" THEN <<>>
    ELSE <<[directive |-> "cargo:warning", text |-> "Copied WebView2Loader.dll to", path |-> d]>>

\* Lines 27-31: the line printed after the copy.
LogLines(result, d) ==
    IF result = "Err"
    THEN <<[directive |-> "cargo:warning", text |-> "Failed to copy WebView2Loader.dll", path |-> <<>>]>>
    ELSE <<[directive |-> "cargo:warning", text |-> "Copied WebView2Loader.dll to", path |-> d]>>

\* Faulty variant of TauriBuild: the call is not made.
TauriBuildSkipped ==
    /\ pc = "start"
    /\ pc' = "built"
    /\ UNCHANGED <<world, fs, iterOrder, run, locals, log, trace, fs0, prev>>

\* Line 2
TauriBuild ==
    /\ pc = "start"
    /\ pc' = "built"
    /\ trace' = Append(trace, "tauri_build")
    /\ UNCHANGED <<world, fs, iterOrder, run, locals, log, fs0, prev>>

\* Lines 6-34 compiled out
SkipNotWindows ==
    /\ pc = "built"
    /\ ~CfgWindows
    /\ pc' = "done"
    /\ UNCHANGED <<world, fs, iterOrder, run, locals, log, trace, fs0, prev>>

\* Line 11
ReadOutDir ==
    /\ pc = "built"
    /\ CfgWindows
    /\ trace' = Append(trace, "env:OUT_DIR")
    /\ LET r == EnvVar("OUT_DIR")
       IN  IF r.some
           THEN out_dir' = Some(r.v) /\ pc' = "profile"
           ELSE out_dir' = out_dir /\ pc' = "panicked"
    /\ UNCHANGED <<world, fs, iterOrder, run, profile, manifest_dir, target_dir, src_dll,
                   dest, copy_result, log, fs0, prev>>

\* Line 12
ReadProfile ==
    /\ pc = "profile"
    /\ trace' = Append(trace, "env:PROFILE")
    /\ LET r == EnvVar("PROFILE")
       IN  IF r.some
           THEN profile' = Some(r.v) /\ pc' = "manifest"
           ELSE profile' = profile /\ pc' = "panicked"
    /\ UNCHANGED <<world, fs, iterOrder, run, out_dir, manifest_dir, target_dir, src_dll,
                   dest, copy_result, log, fs0, prev>>

\* Lines 15-16
ReadManifestDir ==
    /\ pc = "manifest"
    /\ trace' = Append(trace, "env:CARGO_MANIFEST_DIR")
    /\ LET r == EnvVar("CARGO_MANIFEST_DIR")
       IN  IF r.some
           THEN /\ manifest_dir' = Some(r.v)
                /\ target_dir' = Some(TargetDir(r.v, profile.v))
                /\ pc' = "search"
           ELSE /\ manifest_dir' = manifest_dir
                /\ target_dir' = target_dir
                /\ pc' = "panicked"
    /\ UNCHANGED <<world, fs, iterOrder, run, out_dir, profile, src_dll,
                   dest, copy_result, log, fs0, prev>>

\* Faulty variant of FindSrcDll: lists the build directory and takes the first
\* entry with the prefix.
FindSrcDllByListing ==
    /\ pc = "search"
    /\ trace' = Append(trace, "ancestors")
    /\ \E o \in Orders :
         /\ iterOrder' = o
         /\ src_dll' = Some(BuildDir \o <<o[1]>> \o DllRelPath)
    /\ pc' = "check"
    /\ UNCHANGED <<world, fs, run, out_dir, profile, manifest_dir, target_dir,
                   dest, copy_result, log, fs0, prev>>

\* Lines 19-22.  The host's listing order is chosen here and is never read.
FindSrcDll ==
    /\ pc = "search"
    /\ trace' = Append(trace, "ancestors")
    /\ \E o \in Orders : iterOrder' = o
    /\ src_dll' = SrcDll(out_dir.v)
    /\ pc' = "check"
    /\ UNCHANGED <<world, fs, run, out_dir, profile, manifest_dir, target_dir,
                   dest, copy_result, log, fs0, prev>>

\* Line 24, no candidate
NoCandidate ==
    /\ pc = "check"
    /\ ~src_dll.some
    /\ pc' = "done"
    /\ UNCHANGED <<world, fs, iterOrder, run, locals, log, trace, fs0, prev>>

\* Lines 24-25
CheckExists ==
    /\ pc = "check"
    /\ src_dll.some
    /\ trace' = Append(trace, "exists")
    /\ pc' = IF Exists(fs, src_dll.v) THEN "copy" ELSE "done"
    /\ UNCHANGED <<world, fs, iterOrder, run, locals, log, fs0, prev>>

\* Lines 26-31
Copy ==
    /\ pc = "copy"
    /\ trace' = Append(trace, "copy")
    /\ LET d == Join(target_dir.v, DllName)
       IN  /\ dest' = Some(d)
           /\ \/ /\ CanCopy(fs, src_dll.v, d)
                 /\ fs' = CopyOk(fs, src_dll.v, d)
                 /\ copy_result' = Some("Ok")
                 /\ log' = log \o LogLines("Ok", d)
              \/ /\ fs' \in CopyErr(fs, src_dll.v, d)
                 /\ copy_result' = Some("Err")
                 /\ log' = log \o LogLines("Err", d)
    /\ pc' = "done"
    /\ UNCHANGED <<world, iterOrder, run, out_dir, profile, manifest_dir, target_dir,
                   src_dll, fs0, prev>>

\* The orchestrator runs the script again, in a fresh process.
NextRun ==
    /\ pc \in {"done", "panicked"}
    /\ run < MaxRuns
    /\ prev' = Some([pc |-> pc, src_dll |-> src_dll, dest |-> dest, copy_result |-> copy_result,
                     iterOrder |-> iterOrder, fs0 |-> fs0, fs |-> fs])
    /\ run' = run + 1
    /\ pc' = "start"
    /\ out_dir' = NoneV /\ profile' = NoneV /\ manifest_dir' = NoneV /\ target_dir' = NoneV
    /\ src_dll' = NoneV /\ dest' = NoneV /\ copy_result' = NoneV
    /\ iterOrder' = <<>>
    /\ log' = <<>>
    /\ trace' = <<>>
    /\ fs0' = fs
    /\ UNCHANGED <<world, fs>>

Next ==
    \/ TauriBuild
    \/ SkipNotWindows
    \/ ReadOutDir
    \/ ReadProfile
    \/ ReadManifestDir
    \/ FindSrcDll
    \/ NoCandidate
    \/ CheckExists
    \/ Copy
    \/ NextRun

Spec == Init /\ [][Next]_vars

-----------------------------------------------------------------------------
(* Vocabulary of the properties *)

Terminated == pc \in {"done", "panicked"}
EnvOk == \A n \in EnvNames : env[n].kind = "unicode"
Calls(e) == Cardinality({i \in DOMAIN trace : trace[i] = e})
At(f, q) == IF q \in DOMAIN f THEN f[q] ELSE Absent
Changed == {q \in (DOMAIN fs) \cup (DOMAIN fs0) : At(fs, q) # At(fs0, q)}
Parsed == [s \in OutDirs \cup ManifestDirs \cup {""} |-> PathNew(s)]
ExpectedDest == Parsed[env["CARGO_MANIFEST_DIR"].s] \o <<"target", env["PROFILE"].s, DllName>>
CopyFailedLine == [directive |-> "cargo:warning", text |-> "Failed to copy WebView2Loader.dll", path |-> <<>>]
Searched == iterOrder # <<>>
Present(f, p) == Lookup(f, p) # Absent

\* C1 as stated: on Windows, whenever the source file exists at the candidate
\* path, the destination holds a byte-identical copy once the step has run.
C1_AsStated ==
    (pc = "done" /\ platform = "windows" /\ src_dll.some /\ Lookup(fs0, src_dll.v) \in Contents)
        => Lookup(fs, ExpectedDest) = Lookup(fs0, src_dll.v)

\* C1 amended: on Windows, whenever something exists at the candidate path the
\* copy to <root>/target/<profile>/WebView2Loader.dll is attempted, and when
\* std::fs::copy returns Ok the destination holds the source's bytes.
C1_CopyIdentical ==
    (pc = "done" /\ platform = "windows" /\ src_dll.some /\ Present(fs0, src_dll.v))
        => /\ copy_result.some
           /\ dest = Some(ExpectedDest)
           /\ copy_result.v = "Ok" =>
                /\ Lookup(fs0, src_dll.v) \in Contents
                /\ Lookup(fs, ExpectedDest) = Lookup(fs0, src_dll.v)

C1_Witness ==
    /\ pc = "done" /\ copy_result = Some("Ok")
    /\ Lookup(fs0, dest.v) \in Contents
    /\ Lookup(fs0, dest.v) # Lookup(fs0, src_dll.v)
    /\ Lookup(fs, dest.v) = Lookup(fs0, src_dll.v)

\* C2: off Windows the step only calls tauri_build::build(): it reads no
\* environment value, searches nothing, writes nothing, prints nothing and
\* cannot abort on a missing environment value.
C2_NoOpOffWindows ==
    platform # "windows"
        => /\ pc # "panicked"
           /\ \A i \in DOMAIN trace : trace[i] = "tauri_build"
           /\ pc = "done" => trace = <<"tauri_build">>
           /\ fs = fs0
           /\ log = <<>>
           /\ out_dir = NoneV /\ profile = NoneV /\ manifest_dir = NoneV
           /\ src_dll = NoneV /\ dest = NoneV /\ copy_result = NoneV

C2_Witness ==
    /\ platform # "windows" /\ pc = "done" /\ run = MaxRuns
    /\ env["OUT_DIR"].kind = "absent"
    /\ \E q \in SourceFiles : Lookup(fs, q) \in Contents

\* C3: on Windows, if any of OUT_DIR, PROFILE, CARGO_MANIFEST_DIR is absent the
\* step aborts, before any ancestor search, existence check or copy, and the
\* file system is left as it was.
C3_AbortBeforeSearch ==
    /\ (platform = "windows" /\ ~EnvOk /\ Terminated) => pc = "panicked"
    /\ pc = "panicked" =>
          /\ ~EnvOk
          /\ Calls("ancestors") = 0 /\ Calls("exists") = 0 /\ Calls("copy") = 0
          /\ src_dll = NoneV /\ dest = NoneV
          /\ fs = fs0
          /\ log = <<>>

C3_Witness ==
    /\ pc = "panicked"
    /\ env["OUT_DIR"] = EnvStr("/proj/target/debug/build/webview2-com-sys-abc123/out")
    /\ env["PROFILE"].kind = "unicode"
    /\ env["CARGO_MANIFEST_DIR"].kind = "absent"
    /\ Lookup(fs, BuiltCrate \o DllRelPath) \in Contents

\* C4: on Windows with all three values present, when no ancestor matches or
\* nothing exists at the candidate path, the step completes normally: no abort,
\* no copy, the destination neither created nor modified.
C4_NoSourceNoWrite ==
    (platform = "windows" /\ EnvOk)
        => /\ pc # "panicked"
           /\ (pc = "done" /\ (~src_dll.some \/ ~Present(fs0, src_dll.v)))
                => /\ fs = fs0
                   /\ dest = NoneV /\ copy_result = NoneV
                   /\ Calls("copy") = 0

C4_Witness ==
    /\ platform = "windows" /\ EnvOk /\ pc = "done"
    /\ src_dll.some /\ ~Present(fs0, src_dll.v)
    /\ Lookup(fs, SiblingCrate \o DllRelPath) \in Contents
    /\ Lookup(fs, ExpectedDest) \in Contents

\* C5 as stated: every non-fatal failure (no matching directory, no source
\* file, failed copy) leaves a warning in the build log and the step completes.
C5_AsStated ==
    (pc = "done" /\ platform = "windows"
        /\ (~src_dll.some \/ ~Present(fs0, src_dll.v) \/ copy_result = Some("Err")))
        => Len(log) >= 1

\* C5 amended: only a failed copy is logged as a warning; when no ancestor
\* matches or nothing exists at the candidate path the step prints nothing.
\* In all three cases the step completes without aborting.
C5_OnlyCopyFailureWarns ==
    (platform = "windows" /\ Searched)
        => /\ pc # "panicked"
           /\ pc = "done" =>
                /\ copy_result = Some("Err") => log = <<CopyFailedLine>>
                /\ (~src_dll.some \/ ~Present(fs0, src_dll.v)) => log = <<>>
                /\ (\E i \in DOMAIN log : log[i] = CopyFailedLine) => copy_result = Some("Err")

C5_Witness ==
    /\ pc = "done" /\ copy_result = Some("Err") /\ log = <<CopyFailedLine>>
    /\ Lookup(fs, dest.v) = Partial

\* C6: tauri_build::build() is called exactly once in every execution, on
\* every platform, before any environment value is read, any search is done or
\* any file is copied; it has run when the step aborts on a missing value.
C6_BuildFirstOnce ==
    /\ trace # <<>> => trace[1] = "tauri_build"
    /\ Calls("tauri_build") <= 1
    /\ pc # "start" => Calls("tauri_build") = 1

C6_Witness ==
    /\ pc = "panicked"
    /\ trace = <<"tauri_build", "env:OUT_DIR">>

\* C7 as stated: with the same environment and an existing, unchanged source
\* file, the destination content after the second run equals the content after
\* the first run.
C7_AsStated ==
    (pc = "done" /\ prev.some /\ platform = "windows" /\ src_dll.some
        /\ Lookup(prev.v.fs0, src_dll.v) \in Contents /\ Lookup(fs0, src_dll.v) \in Contents)
        => Lookup(fs, ExpectedDest) = Lookup(prev.v.fs, ExpectedDest)

\* C7 amended: when std::fs::copy returns Ok in two successive runs, the
\* destination content after the second run equals the content after the first;
\* no run ever changes a source file.
C7_IdempotentWhenCopied ==
    /\ (pc = "done" /\ prev.some /\ prev.v.copy_result = Some("Ok") /\ copy_result = Some("Ok"))
          => /\ dest = prev.v.dest
             /\ Lookup(fs, dest.v) = Lookup(prev.v.fs, dest.v)
             /\ Lookup(fs, dest.v) = Lookup(prev.v.fs0, src_dll.v)
    /\ \A q \in SourceFiles :
          /\ At(fs, q) = At(fs0, q)
          /\ prev.some => At(fs, q) = At(prev.v.fs0, q)

C7_Witness ==
    /\ pc = "done" /\ prev.some
    /\ prev.v.copy_result = Some("Ok") /\ copy_result = Some("Ok")
    /\ Lookup(prev.v.fs0, dest.v) # Lookup(fs, dest.v)

\* C8: a run writes at most one path, <CARGO_MANIFEST_DIR>/target/<PROFILE>/
\* WebView2Loader.dll, which depends on the project root and the profile only;
\* a file already there is overwritten; no other path, the source included, is
\* created, modified or deleted.
C8_OnlyDestWritten ==
    /\ Changed \subseteq (IF EnvOk /\ platform = "windows" THEN {ExpectedDest} ELSE {})
    /\ dest.some => dest.v = ExpectedDest
    /\ copy_result = Some("Ok") => Lookup(fs, ExpectedDest) = Lookup(fs0, src_dll.v)
    /\ \A q \in SourceFiles : At(fs, q) = At(fs0, q)

C8_Witness ==
    /\ pc = "done" /\ copy_result = Some("Ok")
    /\ env["CARGO_MANIFEST_DIR"].s = "/proj/apps/leaxer_desktop/src-tauri"
    /\ env["PROFILE"].s = "release"
    /\ Lookup(fs0, ExpectedDest) \in Contents
    /\ Changed = {ExpectedDest}

\* C9: the candidate is <A>/out/x64/WebView2Loader.dll for the nearest path A
\* in the ancestor chain of OUT_DIR (OUT_DIR itself first) whose last component
\* starts with "webview2-com-sys"; there is none when no path matches; when
\* nothing exists at the candidate no farther ancestor and no sibling is tried.
C9_NearestAncestor ==
    Searched =>
        LET p == Parsed[env["OUT_DIR"].s]
            named(k) == k >= 1 /\ p[k] # ".." /\ StartsWith(p[k], "webview2-com-sys")
        IN  /\ src_dll.some <=> \E k \in 1..Len(p) : named(k)
            /\ src_dll.some =>
                 \E k \in 1..Len(p) :
                    /\ named(k)
                    /\ \A j \in (k + 1)..Len(p) : ~named(j)
                    /\ src_dll.v = SubSeq(p, 1, k) \o <<"out", "x64", "WebView2Loader.dll">>
            /\ env["OUT_DIR"].s = "/proj/target/debug/build/webview2-com-sys-abc123/out"
                 => src_dll = Some(<<"proj", "target", "debug", "build", "webview2-com-sys-abc123",
                                     "out", "x64", "WebView2Loader.dll">>)
            /\ (pc = "done" /\ src_dll.some /\ ~Present(fs0, src_dll.v))
                 => Calls("exists") = 1 /\ Calls("copy") = 0 /\ fs = fs0

C9_Witness ==
    /\ pc = "done"
    /\ env["OUT_DIR"].s = "/proj/target/debug/build/webview2-com-sys-abc123/out/webview2-com-sys"
    /\ src_dll = Some(NestedCrate \o DllRelPath)
    /\ ~Present(fs, src_dll.v)
    /\ Lookup(fs, BuiltCrate \o DllRelPath) \in Contents
    /\ Lookup(fs, SiblingCrate \o DllRelPath) \in Contents

\* C10 as stated: with sibling build directories sharing the prefix, the
\* candidate chosen depends on the order in which the host lists them: two
\* runs that differ only in that order choose different candidates.
C10_AsStated ==
    (prev.some /\ Searched /\ prev.v.iterOrder # <<>> /\ prev.v.iterOrder # iterOrder
        /\ Lookup(fs0, BuiltCrate \o DllRelPath) \in Contents
        /\ Lookup(fs0, SiblingCrate \o DllRelPath) \in Contents)
        => src_dll # prev.v.src_dll

\* C10 amended: the search lists no directory; two runs with the same
\* environment choose the same candidate whatever the listing order, and a
\* sibling directory sharing the prefix is never the candidate.
C10_OrderIndependent ==
    /\ (prev.some /\ Searched /\ prev.v.iterOrder # <<>>) => src_dll = prev.v.src_dll
    /\ src_dll # Some(SiblingCrate \o DllRelPath)

C10_Witness ==
    /\ pc = "done" /\ prev.some /\ prev.v.iterOrder # <<>> /\ prev.v.iterOrder # iterOrder
    /\ src_dll = Some(BuiltCrate \o DllRelPath)
    /\ Lookup(fs0, BuiltCrate \o DllRelPath) \in Contents
    /\ Lookup(fs0, SiblingCrate \o DllRelPath) \in Contents

====
